---- MODULE Spec2Model ----
(***************************************************************************)
(* Model of cc-secp256k1/src/lib.rs: the adapter that wraps the secp256k1  *)
(* curve engine behind the PrivateKey / PublicKey / Signature contracts.   *)
(*                                                                         *)
(* The curve engine is an external crate.  It is modelled by the ECDSA     *)
(* algorithm it implements, including the library's parsing rules, digest  *)
(* reduction and low-S rule, over the curve y^2 = x^3 + 7 scaled down from *)
(* the 256-bit field to F_13 (a group of prime order 7, and, as for        *)
(* secp256k1, order < field prime < 2^width).  A byte is scaled to 4 bits, *)
(* a scalar to one byte: a private key is 1 byte (for 32), a compressed    *)
(* public key 2 (for 33), an uncompressed one 3 (for 65), a compact        *)
(* signature 2 (for 64) and a digest 1 (for 32).                           *)
(***************************************************************************)
EXTENDS Integers, Sequences, FiniteSets, TLC

VARIABLES role, priv, pub, sig, first_pub, born, last

vars == <<role, priv, pub, sig, first_pub, born, last>>

(***************************************************************************)
(* Bounds of the model.                                                    *)
(***************************************************************************)
\* longest byte string handed to a try_from
MaxLen == 3

(***************************************************************************)
(* The scaled curve and sizes.                                             *)
(***************************************************************************)
FieldPrime == 13
GroupOrder == 7
CurveB == 7
ByteBase == 16
SecretKeySize == 1
PublicKeySize == 2
UncompressedPublicKeySize == 3
CompactSignatureSize == 2
MessageSize == 1

Byte == 0 .. (ByteBase - 1)

RECURSIVE ByteStrings(_)
ByteStrings(n) ==
    IF n = 0 THEN {<<>>}
    ELSE LET shorter == ByteStrings(n - 1)
         IN  shorter \cup {Append(s, b) : s \in {t \in shorter : Len(t) = n - 1}, b \in Byte}

\* every 32-byte digest (cc::Hash), scaled
Hashes == {h \in ByteStrings(MessageSize) : Len(h) = MessageSize}

\* big-endian decoding and encoding of a fixed-width integer
RECURSIVE FromBE(_)
FromBE(bytes) ==
    IF bytes = <<>> THEN 0
    ELSE FromBE(SubSeq(bytes, 1, Len(bytes) - 1)) * ByteBase + bytes[Len(bytes)]

RECURSIVE ToBE(_, _)
ToBE(v, n) ==
    IF n = 0 THEN <<>>
    ELSE Append(ToBE(v \div ByteBase, n - 1), v % ByteBase)

(***************************************************************************)
(* Field and group arithmetic of the curve engine.                         *)
(***************************************************************************)
FInv(a) == CHOOSE x \in 1 .. (FieldPrime - 1) : (a * x) % FieldPrime = 1

SInv(a) == CHOOSE x \in 1 .. (GroupOrder - 1) : (a * x) % GroupOrder = 1

Infinity == <<0, 0>>

OnCurve(x, y) == (y * y) % FieldPrime = (x * x * x + CurveB) % FieldPrime

CurvePoints ==
    {pt \in (0 .. (FieldPrime - 1)) \X (0 .. (FieldPrime - 1)) : OnCurve(pt[1], pt[2])}

PointAdd(a, b) ==
    IF a = Infinity THEN b
    ELSE IF b = Infinity THEN a
    ELSE IF a[1] = b[1] /\ (a[2] + b[2]) % FieldPrime = 0 THEN Infinity
    ELSE LET l == IF a = b
                  THEN (3 * a[1] * a[1] * FInv((2 * a[2]) % FieldPrime)) % FieldPrime
                  ELSE ((b[2] - a[2]) * FInv((b[1] - a[1]) % FieldPrime)) % FieldPrime
             x == (l * l - a[1] - b[1]) % FieldPrime
             y == (l * (a[1] - x) - a[2]) % FieldPrime
         IN  <<x, y>>

RECURSIVE PointMul(_, _)
PointMul(k, pt) == IF k = 0 THEN Infinity ELSE PointAdd(PointMul(k - 1, pt), pt)

\* the generator: the curve point with the least x, then the least y
Generator ==
    CHOOSE g \in CurvePoints :
        \A h \in CurvePoints : g[1] < h[1] \/ (g[1] = h[1] /\ g[2] <= h[2])

(***************************************************************************)
(* Results and the two error domains.                                      *)
(***************************************************************************)
Ok(v) == [ok |-> TRUE, val |-> v]

Err(e) == [ok |-> FALSE, err |-> e]

\* secp256k1::Error
Secp256k1ErrorKinds ==
    {"IncorrectSignature", "InvalidMessage", "InvalidPublicKey", "InvalidSignature",
     "InvalidSecretKey", "InvalidRecoveryId", "InvalidTweak", "NotEnoughMemory"}

\* cc::CryptoError
CryptoError(kind) == [kind |-> kind, msg |-> ""]

Other(msg) == [kind |-> "Other", msg |-> msg]

\* From with the arms of IncorrectSignature and InvalidMessage exchanged
From_arms_exchanged(err) ==
    CASE err = "IncorrectSignature" -> CryptoError("InvalidLength")
      [] err = "InvalidMessage" -> CryptoError("InvalidSignature")
      [] err = "InvalidPublicKey" -> CryptoError("InvalidPublicKey")
      [] err = "InvalidSignature" -> CryptoError("InvalidSignature")
      [] err = "InvalidSecretKey" -> CryptoError("InvalidPrivateKey")
      [] err = "InvalidRecoveryId" -> CryptoError("InvalidSignature")
      [] err = "InvalidTweak" -> Other("secp256k1: bad tweak")
      [] err = "NotEnoughMemory" -> Other("secp256k1: not enough memory")

\* From with an invalid recovery id left to Other
From_recovery_id_other(err) ==
    CASE err = "IncorrectSignature" -> CryptoError("InvalidSignature")
      [] err = "InvalidMessage" -> CryptoError("InvalidLength")
      [] err = "InvalidPublicKey" -> CryptoError("InvalidPublicKey")
      [] err = "InvalidSignature" -> CryptoError("InvalidSignature")
      [] err = "InvalidSecretKey" -> CryptoError("InvalidPrivateKey")
      [] err = "InvalidRecoveryId" -> Other("secp256k1: bad recovery id")
      [] err = "InvalidTweak" -> Other("secp256k1: bad tweak")
      [] err = "NotEnoughMemory" -> Other("secp256k1: not enough memory")

\* From with the backend's name left out of the messages of Other
From_unprefixed(err) ==
    CASE err = "IncorrectSignature" -> CryptoError("InvalidSignature")
      [] err = "InvalidMessage" -> CryptoError("InvalidLength")
      [] err = "InvalidPublicKey" -> CryptoError("InvalidPublicKey")
      [] err = "InvalidSignature" -> CryptoError("InvalidSignature")
      [] err = "InvalidSecretKey" -> CryptoError("InvalidPrivateKey")
      [] err = "InvalidRecoveryId" -> CryptoError("InvalidSignature")
      [] err = "InvalidTweak" -> Other("bad tweak")
      [] err = "NotEnoughMemory" -> Other("not enough memory")

\* impl From<Secp256k1Error> for CryptoError
From(err) ==
    CASE err = "IncorrectSignature" -> CryptoError("InvalidSignature")
      [] err = "InvalidMessage" -> CryptoError("InvalidLength")
      [] err = "InvalidPublicKey" -> CryptoError("InvalidPublicKey")
      [] err = "InvalidSignature" -> CryptoError("InvalidSignature")
      [] err = "InvalidSecretKey" -> CryptoError("InvalidPrivateKey")
      [] err = "InvalidRecoveryId" -> CryptoError("InvalidSignature")
      [] err = "InvalidTweak" -> Other("secp256k1: bad tweak")
      [] err = "NotEnoughMemory" -> Other("secp256k1: not enough memory")

(***************************************************************************)
(* The curve engine (crate secp256k1), as lib.rs calls it.                 *)
(***************************************************************************)
\* Secp256k1::signing_only() and Secp256k1::verification_only()
signing_only == "SignOnly"

verification_only == "VerifyOnly"

\* secp256k1::SecretKey::from_slice: 32 bytes, a scalar in 1 .. order - 1
SecretKey_from_slice(bytes) ==
    IF Len(bytes) # SecretKeySize THEN Err("InvalidSecretKey")
    ELSE IF FromBE(bytes) = 0 \/ FromBE(bytes) >= GroupOrder THEN Err("InvalidSecretKey")
    ELSE Ok(FromBE(bytes))

\* secp256k1::PublicKey::from_slice: the compressed (02/03), uncompressed (04)
\* and hybrid (06/07) encodings of a curve point
PublicKey_from_slice(bytes) ==
    IF Len(bytes) = PublicKeySize /\ bytes[1] \in {2, 3}
    THEN LET x == FromBE(SubSeq(bytes, 2, Len(bytes)))
             ys == {y \in 0 .. (FieldPrime - 1) : OnCurve(x, y) /\ (y % 2) = bytes[1] - 2}
         IN  IF x < FieldPrime /\ ys # {}
             THEN Ok(<<x, CHOOSE y \in ys : TRUE>>)
             ELSE Err("InvalidPublicKey")
    ELSE IF Len(bytes) = UncompressedPublicKeySize /\ bytes[1] \in {4, 6, 7}
    THEN LET x == FromBE(SubSeq(bytes, 2, 1 + SecretKeySize))
             y == FromBE(SubSeq(bytes, 2 + SecretKeySize, Len(bytes)))
         IN  IF /\ x < FieldPrime
                /\ y < FieldPrime
                /\ OnCurve(x, y)
                /\ (bytes[1] = 4 \/ (y % 2) = bytes[1] - 6)
             THEN Ok(<<x, y>>)
             ELSE Err("InvalidPublicKey")
    ELSE Err("InvalidPublicKey")

\* secp256k1::Signature::from_compact: 64 bytes, r and s below the order
Signature_from_compact(bytes) ==
    IF Len(bytes) # CompactSignatureSize THEN Err("InvalidSignature")
    ELSE LET r == FromBE(SubSeq(bytes, 1, SecretKeySize))
             s == FromBE(SubSeq(bytes, SecretKeySize + 1, Len(bytes)))
         IN  IF r >= GroupOrder \/ s >= GroupOrder
             THEN Err("InvalidSignature")
             ELSE Ok(<<r, s>>)

\* secp256k1::PublicKey::serialize and secp256k1::Signature::serialize_compact
serialize(pub_key) == <<2 + (pub_key[2] % 2)>> \o ToBE(pub_key[1], SecretKeySize)

serialize_compact(s) == ToBE(s[1], SecretKeySize) \o ToBE(s[2], SecretKeySize)

\* the digest as the engine's scalar: reduced modulo the order, overflow ignored
MessageScalar(msg) == FromBE(msg) % GroupOrder

IsHigh(s) == s > (GroupOrder - 1) \div 2

\* secp256k1_ecdsa_sig_sign, one attempt with nonce k on the digest scalar m:
\* fails when r or s is zero, and normalises s to the lower half
ecdsa_sig_sign(m, secret_key, k) ==
    LET r == PointMul(k, Generator)[1] % GroupOrder
        s == (SInv(k) * (m + r * secret_key)) % GroupOrder
    IN  IF r = 0 \/ s = 0 THEN Err("retry")
        ELSE Ok(<<r, IF IsHigh(s) THEN GroupOrder - s ELSE s>>)

\* secp256k1_ecdsa_verify on the digest scalar m: s must be low, r and s not
\* zero, and the x coordinate of u1*G + u2*Q must be r modulo the order
ecdsa_sig_verify(m, s, pub_key) ==
    IF IsHigh(s[2]) \/ s[1] = 0 \/ s[2] = 0 THEN FALSE
    ELSE LET sn == SInv(s[2])
             u1 == (sn * m) % GroupOrder
             u2 == (sn * s[1]) % GroupOrder
             pr == PointAdd(PointMul(u1, Generator), PointMul(u2, pub_key))
         IN  /\ pr # Infinity
             /\ \/ pr[1] = s[1]
                \/ (s[1] + GroupOrder < FieldPrime /\ pr[1] = s[1] + GroupOrder)

\* secp256k1_ec_pubkey_create
ec_pubkey_create(secret_key) == PointMul(secret_key, Generator)

\* the three engine computations, tabulated over the scalars and points
Scalars == 0 .. (GroupOrder - 1)

SignTable ==
    [m \in Scalars, secret_key \in Scalars \ {0}, k \in Scalars \ {0} |->
        ecdsa_sig_sign(m, secret_key, k)]

VerifyTable ==
    [m \in Scalars, s \in Scalars \X Scalars, pub_key \in CurvePoints |->
        ecdsa_sig_verify(m, s, pub_key)]

PubkeyTable == [secret_key \in Scalars \ {0} |-> ec_pubkey_create(secret_key)]

\* Secp256k1::sign: the signatures the retry loop over nonces can stop at (the
\* nonce is a pseudo-random function of the key, the digest and the attempt)
engine_sign(msg, secret_key) ==
    LET attempt(k) == SignTable[MessageScalar(msg), secret_key, k]
    IN  {attempt(k).val : k \in {n \in Scalars \ {0} : attempt(n).ok}}

\* Secp256k1::verify
engine_verify(msg, s, pub_key) ==
    IF VerifyTable[MessageScalar(msg), s, pub_key]
    THEN Ok(<<>>)
    ELSE Err("IncorrectSignature")

\* secp256k1::PublicKey::from_secret_key
from_secret_key(secret_key) == PubkeyTable[secret_key]

(***************************************************************************)
(* The adapter: lib.rs.                                                    *)
(***************************************************************************)
\* HashedMessage::to_bytes, ThirtyTwoByteHash::into_32 and Message::from:
\* the digest's own 32 bytes, unchanged and unchecked
into_32(msg) == msg

Message_from(msg) == into_32(msg)

\* impl TryFrom<&[u8]> for Secp256k1PrivateKey
PrivateKey_try_from(bytes) ==
    LET r == SecretKey_from_slice(bytes)
    IN  IF r.ok
        THEN Ok([secret_key |-> r.val, engine |-> signing_only])
        ELSE Err(From(r.err))

\* sign_message signing another digest than the one it is given
sign_message_other_digest(self, msg) ==
    {[sig |-> s, engine |-> verification_only] :
        s \in engine_sign(Message_from([msg EXCEPT ![Len(msg)] = (@ + 1) % ByteBase]),
                          self.secret_key)}

\* sign_message handing its own engine on to the signature
sign_message_own_engine(self, msg) ==
    {[sig |-> s, engine |-> self.engine] :
        s \in engine_sign(Message_from(msg), self.secret_key)}

\* Secp256k1PrivateKey::sign_message: the signatures it can return
sign_message(self, msg) ==
    {[sig |-> s, engine |-> verification_only] :
        s \in engine_sign(Message_from(msg), self.secret_key)}

\* pub_key deriving from a scalar that its earlier calls have moved
pub_key_moving(self) ==
    [pub_key |-> from_secret_key(IF first_pub = <<>>
                                 THEN self.secret_key
                                 ELSE (self.secret_key % (GroupOrder - 1)) + 1),
     engine |-> verification_only]

\* Secp256k1PrivateKey::pub_key
pub_key(self) ==
    [pub_key |-> from_secret_key(self.secret_key), engine |-> verification_only]

\* Secp256k1PrivateKey::to_bytes
PrivateKey_to_bytes(self) == ToBE(self.secret_key, SecretKeySize)

\* impl TryFrom<&[u8]> for Secp256k1PublicKey
PublicKey_try_from(bytes) ==
    LET r == PublicKey_from_slice(bytes)
    IN  IF r.ok
        THEN Ok([pub_key |-> r.val, engine |-> verification_only])
        ELSE Err(From(r.err))

\* Secp256k1PublicKey::verify_signature
verify_signature(self, msg, s) ==
    LET r == engine_verify(Message_from(msg), s.sig, self.pub_key)
    IN  IF r.ok THEN Ok(<<>>) ELSE Err(From(r.err))

\* Secp256k1PublicKey::to_bytes
PublicKey_to_bytes(self) == serialize(self.pub_key)

\* impl TryFrom<&[u8]> for Secp256k1Signature
Signature_try_from(bytes) ==
    LET r == Signature_from_compact(bytes)
    IN  IF r.ok
        THEN Ok([sig |-> r.val, engine |-> verification_only])
        ELSE Err(From(r.err))

\* verify blaming the public key for a signature that does not verify
verify_blames_key(self, msg, p) ==
    LET r == engine_verify(Message_from(msg), self.sig, p.pub_key)
    IN  IF r.ok THEN Ok(<<>>) ELSE Err(From("InvalidPublicKey"))

\* Secp256k1Signature::verify
verify(self, msg, p) ==
    LET r == engine_verify(Message_from(msg), self.sig, p.pub_key)
    IN  IF r.ok THEN Ok(<<>>) ELSE Err(From(r.err))

\* to_bytes writing s before r
Signature_to_bytes_s_first(self) == serialize_compact(<<self.sig[2], self.sig[1]>>)

\* Secp256k1Signature::to_bytes
Signature_to_bytes(self) == serialize_compact(self.sig)

(***************************************************************************)
(* The state: the live private key, public key and signature (at most one  *)
(* of each; constructing another drops the old one), and the last call.    *)
(* The caller is a signer, who holds a private key, derives public keys    *)
(* and signs, or a verifier, who holds no private key and parses the       *)
(* public keys and signatures it is sent.                                  *)
(* first_pub and born are history: the encoding the live private key's     *)
(* first pub_key() returned, and each live object's encoding at            *)
(* construction.  last.arg is the length of the bytes parsed, the digest   *)
(* signed or verified, the backend error mapped, or whether the pub_key()  *)
(* was this private key's first (1) or a later one (2).                    *)
(***************************************************************************)
None == [none |-> TRUE]

Success == [ok |-> TRUE, err |-> CryptoError("")]

Failure(e) == [ok |-> FALSE, err |-> e]

Outcome(r) == IF r.ok THEN Success ELSE Failure(r.err)

Call(op, arg, res, out, engine) ==
    [op |-> op, arg |-> arg, res |-> res, out |-> out, engine |-> engine]

\* the byte strings a caller can hand to a try_from
Inputs == ByteStrings(MaxLen)

\* A try_from acts on its input only through the input's length and what the
\* parser makes of it: one input of each such class gives every transition.
PrivateKeyInputs ==
    LET class(b) == <<Len(b), PrivateKey_try_from(b)>>
    IN  {CHOOSE b \in Inputs : class(b) = c : c \in {class(b) : b \in Inputs}}

PublicKeyInputs ==
    LET class(b) == <<Len(b), PublicKey_try_from(b)>>
    IN  {CHOOSE b \in Inputs : class(b) = c : c \in {class(b) : b \in Inputs}}

SignatureInputs ==
    LET class(b) == <<Len(b), Signature_try_from(b)>>
    IN  {CHOOSE b \in Inputs : class(b) = c : c \in {class(b) : b \in Inputs}}

Roles == {"signer", "verifier"}

Init ==
    /\ role \in Roles
    /\ priv = None
    /\ pub = None
    /\ sig = None
    /\ first_pub = <<>>
    /\ born = [priv |-> <<>>, pub |-> <<>>, sig |-> <<>>]
    /\ last = Call("new", <<>>, Success, <<>>, "")

ParsePrivateKey(bytes) ==
    LET r == PrivateKey_try_from(bytes)
    IN  /\ UNCHANGED role
        /\ last' = Call("PrivateKey::try_from", Len(bytes), Outcome(r), <<>>, "")
        /\ IF r.ok
           THEN /\ priv' = r.val
                /\ first_pub' = <<>>
                /\ born' = [born EXCEPT !.priv = PrivateKey_to_bytes(r.val)]
           ELSE UNCHANGED <<priv, first_pub, born>>
        /\ UNCHANGED <<pub, sig>>

ParsePublicKey(bytes) ==
    LET r == PublicKey_try_from(bytes)
    IN  /\ UNCHANGED role
        /\ last' = Call("PublicKey::try_from", Len(bytes), Outcome(r), <<>>, "")
        /\ IF r.ok
           THEN /\ pub' = r.val
                /\ born' = [born EXCEPT !.pub = PublicKey_to_bytes(r.val)]
           ELSE UNCHANGED <<pub, born>>
        /\ UNCHANGED <<priv, sig, first_pub>>

ParseSignature(bytes) ==
    LET r == Signature_try_from(bytes)
    IN  /\ UNCHANGED role
        /\ last' = Call("Signature::try_from", Len(bytes), Outcome(r), <<>>, "")
        /\ IF r.ok
           THEN /\ sig' = r.val
                /\ born' = [born EXCEPT !.sig = Signature_to_bytes(r.val)]
           ELSE UNCHANGED <<sig, born>>
        /\ UNCHANGED <<priv, pub, first_pub>>

SignMessage(msg) ==
    /\ priv # None
    /\ UNCHANGED role
    /\ \E s \in sign_message(priv, msg) :
           /\ sig' = s
           /\ born' = [born EXCEPT !.sig = Signature_to_bytes(s)]
    /\ last' = Call("sign_message", msg, Success, <<>>, priv.engine)
    /\ UNCHANGED <<priv, pub, first_pub>>

PubKey ==
    /\ priv # None
    /\ UNCHANGED role
    /\ LET p == pub_key(priv)
       IN  /\ pub' = p
           /\ born' = [born EXCEPT !.pub = PublicKey_to_bytes(p)]
           /\ first_pub' = IF first_pub = <<>> THEN PublicKey_to_bytes(p) ELSE first_pub
    /\ last' = Call("pub_key", IF first_pub = <<>> THEN 1 ELSE 2, Success, <<>>,
                    priv.engine)
    /\ UNCHANGED <<priv, sig>>

PrivateKeyToBytes ==
    /\ priv # None
    /\ last' = Call("PrivateKey::to_bytes", <<>>, Success, PrivateKey_to_bytes(priv), "")
    /\ UNCHANGED <<role, priv, pub, sig, first_pub, born>>

PublicKeyToBytes ==
    /\ pub # None
    /\ last' = Call("PublicKey::to_bytes", <<>>, Success, PublicKey_to_bytes(pub), "")
    /\ UNCHANGED <<role, priv, pub, sig, first_pub, born>>

SignatureToBytes ==
    /\ sig # None
    /\ last' = Call("Signature::to_bytes", <<>>, Success, Signature_to_bytes(sig), "")
    /\ UNCHANGED <<role, priv, pub, sig, first_pub, born>>

VerifySignature(msg) ==
    /\ pub # None
    /\ sig # None
    /\ last' = Call("verify_signature", msg, Outcome(verify_signature(pub, msg, sig)),
                    <<>>, pub.engine)
    /\ UNCHANGED <<role, priv, pub, sig, first_pub, born>>

\* Verify normalising the signature in place before it verifies it
VerifyNormalizing(msg) ==
    /\ pub # None
    /\ sig # None
    /\ sig' = [sig EXCEPT !.sig[2] = IF IsHigh(@) THEN GroupOrder - @ ELSE @]
    /\ last' = Call("verify", msg, Outcome(verify(sig', msg, pub)), <<>>, sig.engine)
    /\ UNCHANGED <<role, priv, pub, first_pub, born>>

Verify(msg) ==
    /\ pub # None
    /\ sig # None
    /\ last' = Call("verify", msg, Outcome(verify(sig, msg, pub)), <<>>, sig.engine)
    /\ UNCHANGED <<role, priv, pub, sig, first_pub, born>>

MapError(err) ==
    /\ last' = Call("CryptoError::from", err, Failure(From(err)), <<>>, "")
    /\ UNCHANGED <<role, priv, pub, sig, first_pub, born>>

Next ==
    \/ role = "signer" /\ \E bytes \in PrivateKeyInputs : ParsePrivateKey(bytes)
    \/ role = "verifier" /\ \E bytes \in PublicKeyInputs : ParsePublicKey(bytes)
    \/ role = "verifier" /\ \E bytes \in SignatureInputs : ParseSignature(bytes)
    \/ \E msg \in Hashes : SignMessage(msg)
    \/ PubKey
    \/ PrivateKeyToBytes
    \/ PublicKeyToBytes
    \/ SignatureToBytes
    \/ \E msg \in Hashes : VerifySignature(msg)
    \/ \E msg \in Hashes : Verify(msg)
    \/ \E err \in Secp256k1ErrorKinds : MapError(err)

Spec == Init /\ [][Next]_vars

(***************************************************************************)
(* The claims.                                                             *)
(***************************************************************************)
InvalidSignature == Failure(CryptoError("InvalidSignature"))

Live(x) == x # None

\* the states right after k.sign_message(d): priv is k, last.arg is d, sig is s
JustSigned == last.op = "sign_message"

\* C1: the signature that k.sign_message(d) returns verifies against
\* k.pub_key() and d, through verify_signature and through verify.
C1_SignThenVerify ==
    JustSigned =>
        /\ verify_signature(pub_key(priv), last.arg, sig) = Ok(<<>>)
        /\ verify(sig, last.arg, pub_key(priv)) = Ok(<<>>)

C1_Witness ==
    /\ JustSigned
    /\ FromBE(last.arg) >= GroupOrder
    /\ Live(pub)
    /\ pub = pub_key(priv)
    /\ verify_signature(pub, last.arg, sig).ok

\* C2: a verify_signature call and a verify call on the same digest, signature
\* and public key return the same result: each recorded result is what the
\* other entry point gives, Ok or the same error kind.
C2_Symmetry ==
    /\ last.op = "verify_signature" => last.res = Outcome(verify(sig, last.arg, pub))
    /\ last.op = "verify" => last.res = Outcome(verify_signature(pub, last.arg, sig))

C2_Witness ==
    /\ last.op = "verify_signature"
    /\ role = "verifier"
    /\ last.res.ok
    /\ \E msg \in Hashes : ~verify(sig, msg, pub).ok

C4_WrongLength ==
    /\ (last.op = "PrivateKey::try_from" /\ last.arg # SecretKeySize)
           => last.res = Failure(CryptoError("InvalidPrivateKey"))
    /\ (last.op = "PublicKey::try_from" /\ last.arg # PublicKeySize)
           => last.res = Failure(CryptoError("InvalidPublicKey"))
    /\ (last.op = "Signature::try_from" /\ last.arg # CompactSignatureSize)
           => last.res = InvalidSignature

\* C5: every live private key, public key and signature x round-trips:
\* try_from(x.to_bytes()) succeeds and its to_bytes() is x.to_bytes(), of
\* the type's length.
C5_RoundTrip ==
    /\ Live(priv) =>
           LET bytes == PrivateKey_to_bytes(priv)
               r == PrivateKey_try_from(bytes)
           IN  Len(bytes) = SecretKeySize /\ r.ok /\ PrivateKey_to_bytes(r.val) = bytes
    /\ Live(pub) =>
           LET bytes == PublicKey_to_bytes(pub)
               r == PublicKey_try_from(bytes)
           IN  Len(bytes) = PublicKeySize /\ r.ok /\ PublicKey_to_bytes(r.val) = bytes
    /\ Live(sig) =>
           LET bytes == Signature_to_bytes(sig)
               r == Signature_try_from(bytes)
           IN  Len(bytes) = CompactSignatureSize /\ r.ok /\ Signature_to_bytes(r.val) = bytes

C5_Witness ==
    /\ last.op = "Signature::to_bytes"
    /\ Live(priv)
    /\ Live(pub)
    /\ last.out[1] # last.out[2]
    /\ Signature_try_from(last.out).ok

\* C6: the mapper sends every backend error to the one kind of the table.
MappingTable ==
    [IncorrectSignature |-> "InvalidSignature",
     InvalidMessage |-> "InvalidLength",
     InvalidPublicKey |-> "InvalidPublicKey",
     InvalidSignature |-> "InvalidSignature",
     InvalidSecretKey |-> "InvalidPrivateKey",
     InvalidRecoveryId |-> "InvalidSignature",
     InvalidTweak |-> "Other",
     NotEnoughMemory |-> "Other"]

C6_Mapping ==
    /\ DOMAIN MappingTable = Secp256k1ErrorKinds
    /\ last.op = "CryptoError::from" => last.res.err.kind = MappingTable[last.arg]

C6_Witness ==
    /\ last.op = "CryptoError::from"
    /\ last.arg = "InvalidRecoveryId"
    /\ Live(sig)

\* C7 as claimed: an invalid tweak maps to Other("bad tweak") and a failed
\* allocation to Other("not enough memory").
C7_Claimed ==
    last.op = "CryptoError::from" =>
        /\ last.arg = "InvalidTweak" => last.res.err = Other("bad tweak")
        /\ last.arg = "NotEnoughMemory" => last.res.err = Other("not enough memory")

\* C7 amended: an invalid tweak maps to Other("secp256k1: bad tweak") and a
\* failed allocation to Other("secp256k1: not enough memory").
C7_OtherMessage ==
    last.op = "CryptoError::from" =>
        /\ last.arg = "InvalidTweak" => last.res.err = Other("secp256k1: bad tweak")
        /\ last.arg = "NotEnoughMemory"
               => last.res.err = Other("secp256k1: not enough memory")

C7_Witness ==
    /\ last.op = "CryptoError::from"
    /\ last.arg = "NotEnoughMemory"

\* C8: pub_key() can be called on every live private key, and every call on
\* it returns the 33-byte encoding its first call returned, whatever was
\* called in between.
C8_Deterministic ==
    /\ Live(priv) => ENABLED PubKey
    /\ last.op = "pub_key" =>
           /\ PublicKey_to_bytes(pub) = first_pub
           /\ Len(first_pub) = PublicKeySize

C8_Witness ==
    /\ last.op = "pub_key"
    /\ last.arg = 2
    /\ Live(sig)
    /\ verify_signature(pub, <<0>>, sig).ok

\* C9: every private key holds a sign-only engine, every public key and
\* signature a verify-only one; signing and derivation go through a sign-only
\* handle and verification through a verify-only one.
C9_Capabilities ==
    /\ Live(priv) => priv.engine = signing_only
    /\ Live(pub) => pub.engine = verification_only
    /\ Live(sig) => sig.engine = verification_only
    /\ last.op \in {"sign_message", "pub_key"} => last.engine = signing_only
    /\ last.op \in {"verify_signature", "verify"} => last.engine = verification_only

C9_Witness ==
    /\ last.op = "verify"
    /\ role = "signer"
    /\ Live(priv)
    /\ pub = pub_key(priv)

\* C10: the encoding of every live private key, public key and signature is
\* the one it had when it was constructed.
C10_Unchanged ==
    /\ Live(priv) => PrivateKey_to_bytes(priv) = born.priv
    /\ Live(pub) => PublicKey_to_bytes(pub) = born.pub
    /\ Live(sig) => Signature_to_bytes(sig) = born.sig

C10_Witness ==
    /\ last.op = "verify"
    /\ ~last.res.ok
    /\ IsHigh(sig.sig[2])
    /\ Signature_to_bytes(sig) = born.sig

====
